---- MODULE Spec2Model ----
(***************************************************************************)
(* Watch-party coordination: the Party Store (database.py), the           *)
(* coordination server (presence registry, signaling relay, playback      *)
(* synchronizer) and the browser client (lib/socket.ts and the session    *)
(* page).                                                                  *)
(***************************************************************************)
EXTENDS Integers, Sequences, FiniteSets, TLC

\* ------------------------------------------------------------------ bounds
MaxTime == 2
MaxQueue == 2
MaxEvents == 4
MaxEmits == 3
MaxConns == 2

\* ------------------------------------------------------------- value sets
Users == {"u1", "u2", "u3"}
Clients == {"c1", "c2", "c3"}
PartyIds == {1, 2}
NULL == 0 - 1

VARIABLES
  parties,          \* WatchParties table: party_id (index) -> [host_id, tmdb_id, status]
  rows,             \* WatchPartyParticipants table, in insertion order
  now,              \* the database clock behind CURRENT_TIMESTAMP
  reply,            \* the last Party Store call and what it returned
  registry,         \* Presence Registry: connection handle (sid) -> [party, user]
  playback,         \* Playback state of each party (NoState = null)
  ver,              \* number of events the server has fanned out in each party
  toServer,         \* per socket: messages emitted by the client, in transit (FIFO)
  inbox,            \* per socket: events emitted by the server, in transit (FIFO)
  mounted,          \* session page: the partyId of the page a client has open (0 = none)
  user,             \* useAuth().user of the page
  pc,               \* where the page's setupMedia / handleReconnect stands
  connectionStatus, \* the page's connectionStatus
  participants,     \* the page's participants (the sids it lists)
  playing,          \* the page's playing
  currentTime,      \* videoPlayerRef.current.currentTime
  tmdbId,           \* the page's tmdbId (0 = null: no video element is rendered)
  seeking,          \* the video element has a seek under way (seeked will fire)
  joinCallbacks,    \* the joinWatchParty callbacks of the page that await their answer
  ackId,            \* socket.io: callbacks registered by the socket so far
  current_party_id, \* localStorage current_party_id
  localStream,      \* socket.ts localStream (TRUE = a MediaStream)
  peers,            \* socket.ts peers: sid -> index into conns (0 = no entry)
  conns             \* the SimplePeer instances a client has created

storeVars == <<parties, rows, now, reply>>
serverVars == <<registry, playback, ver>>
netVars == <<toServer, inbox>>
viewVars == <<participants, playing, currentTime, tmdbId, seeking>>
pageVars == <<mounted, user, pc, connectionStatus, viewVars, joinCallbacks>>
socketVars == <<ackId, current_party_id, localStream, peers, conns>>
vars == <<parties, rows, now, reply, registry, playback, ver, toServer, inbox,
          mounted, user, pc, connectionStatus, participants, playing, currentTime,
          tmdbId, seeking, joinCallbacks, ackId, current_party_id, localStream,
          peers, conns>>

\* ------------------------------------------------- Party Store (database.py)

NoReply == [op |-> "none", party_id |-> 0, user_id |-> "", result |-> "none"]

\* Rows of one party, and the aggregate accept_watch_party selects.
PartyRows(rs, p) == {i \in DOMAIN rs : rs[i].party_id = p}

total(rs, p) == Cardinality(PartyRows(rs, p))

\* SUM(joined): NULL over no rows.
joined_count(rs, p) ==
  IF PartyRows(rs, p) = {} THEN NULL
  ELSE Cardinality({i \in PartyRows(rs, p) : rs[i].joined = 1})

RECURSIVE InviteRows(_, _)
InviteRows(p, friend_ids) ==
  IF friend_ids = << >> THEN << >>
  ELSE <<[party_id |-> p, user_id |-> Head(friend_ids), joined |-> 0, joined_at |-> NULL]>>
       \o InviteRows(p, Tail(friend_ids))

\* INSERT the party, the host's row (joined = 1) and one row per friend id.
create_watch_party(host_id, tmdb_id, friend_ids) ==
  /\ LET p == Len(parties) + 1 IN
       /\ parties' = Append(parties, [host_id |-> host_id, tmdb_id |-> tmdb_id, status |-> "pending"])
       /\ rows' = rows
                  \o <<[party_id |-> p, user_id |-> host_id, joined |-> 1, joined_at |-> now]>>
                  \o InviteRows(p, friend_ids)
       /\ reply' = [op |-> "create", party_id |-> p, user_id |-> host_id, result |-> "ok"]
  /\ UNCHANGED <<now, serverVars, netVars, pageVars, socketVars>>

\* UPDATE ... SET joined = 1, joined_at = CURRENT_TIMESTAMP WHERE party_id = ? AND user_id = ?
AcceptedRows(p, u) ==
  [i \in DOMAIN rows |->
     IF rows[i].party_id = p /\ rows[i].user_id = u
     THEN [rows[i] EXCEPT !.joined = 1, !.joined_at = now]
     ELSE rows[i]]

\* A store that activates the party as soon as one invited friend has joined.
AcceptedParties_firstJoin(p, rs) ==
  IF p \in DOMAIN parties
     /\ \E i \in PartyRows(rs, p) : rs[i].user_id # parties[p].host_id /\ rs[i].joined = 1
  THEN [parties EXCEPT ![p].status = "active"]
  ELSE parties

\* if res and res['total'] == res['joined_count']: status = "active"
AcceptedParties(p, rs) ==
  IF total(rs, p) = joined_count(rs, p) /\ p \in DOMAIN parties
  THEN [parties EXCEPT ![p].status = "active"]
  ELSE parties

accept_watch_party(p, u) ==
  /\ rows' = AcceptedRows(p, u)
  /\ parties' = AcceptedParties(p, AcceptedRows(p, u))
  /\ reply' = [op |-> "accept", party_id |-> p, user_id |-> u, result |-> "ok"]
  /\ UNCHANGED <<now, serverVars, netVars, pageVars, socketVars>>

\* UPDATE WatchParties SET status = "ended" WHERE party_id = ?
end_watch_party(p) ==
  /\ parties' = IF p \in DOMAIN parties THEN [parties EXCEPT ![p].status = "ended"] ELSE parties
  /\ reply' = [op |-> "end", party_id |-> p, user_id |-> "", result |-> "ok"]
  /\ UNCHANGED <<rows, now, serverVars, netVars, pageVars, socketVars>>

\* SELECT * FROM WatchParties WHERE party_id = ?: the party's row, or nothing.
NoParty == [host_id |-> "", tmdb_id |-> 0, status |-> "none"]

get_watch_party_details(p) == IF p \in DOMAIN parties THEN parties[p] ELSE NoParty

\* SELECT wp.party_id ... FROM WatchPartyParticipants wpp JOIN WatchParties wp
\* WHERE wpp.user_id = ? AND wpp.joined = 0 AND wp.status = "pending": one result
\* per participant row that qualifies, in row order.
RECURSIVE Selected(_, _, _)
Selected(rs, u, pending) ==
  IF rs = << >> THEN << >>
  ELSE (IF Head(rs).user_id = u /\ Head(rs).joined = 0 /\ pending[Head(rs).party_id]
        THEN <<Head(rs).party_id>> ELSE << >>)
       \o Selected(Tail(rs), u, pending)

\* A store that lists the invites of every party, whatever its status.
get_watch_party_invites_anyStatus(u) ==
  Selected(rows, u, [p \in DOMAIN parties |-> TRUE])

get_watch_party_invites(u) ==
  Selected(rows, u, [p \in DOMAIN parties |-> parties[p].status = "pending"])

\* The database clock advances.
Tick ==
  /\ now < MaxTime
  /\ now' = now + 1
  /\ UNCHANGED <<parties, rows, reply, serverVars, netVars, pageVars, socketVars>>

\* ------------------------------------------- coordination server (spec 4.2-4.5)

NoState == [playing |-> NULL, currentTime |-> NULL, tmdbId |-> NULL]
NoSession == [party |-> 0, user |-> ""]

\* Every message on a socket has the same fields; a message type uses some of them.
Msg(type) ==
  [type |-> type, sid |-> "", user_id |-> "", party_id |-> 0, signal |-> "none",
   state |-> NoState, success |-> TRUE, error |-> "", participants |-> {},
   id |-> 0, ver |-> 0]

\* The server's in-memory state, threaded through the steps of one handler.
ServerState == [reg |-> registry, pb |-> playback, ver |-> ver, inb |-> inbox]

\* roster(partyId): the handles registered in the party.
roster(reg, p) == {h \in Clients : reg[h].party = p}

PartyLive(p) == p \in DOMAIN parties /\ parties[p].status \in {"pending", "active"}

HasRow(p, u) == \E i \in PartyRows(rows, p) : rows[i].user_id = u

\* One event of party p, numbered and appended to the socket of every target.
Fanout(S, p, targets, m) ==
  IF targets = {} THEN S ELSE
  [S EXCEPT !.ver[p] = @ + 1,
            !.inb = [h \in Clients |->
                       IF h \in targets
                       THEN Append(S.inb[h], [m EXCEPT !.party_id = p, !.ver = S.ver[p] + 1])
                       ELSE S.inb[h]]]

\* A message for one socket alone (a callback response, a relayed signal).
SendTo(S, h, m) == [S EXCEPT !.inb[h] = Append(@, m)]

\* An unregister that keeps the playback state of a party left empty.
unregister_keepState(S, h) ==
  LET p == S.reg[h].party
      reg2 == [S.reg EXCEPT ![h] = NoSession]
      left == [Msg("participant_left") EXCEPT !.sid = h, !.user_id = S.reg[h].user]
  IN IF p = 0 THEN S
     ELSE Fanout([S EXCEPT !.reg = reg2], p, roster(reg2, p), left)

\* unregister(handle): drop the mapping, tell the rest of the roster, and
\* discard the party's playback state with its last handle.
unregister(S, h) ==
  LET p == S.reg[h].party
      reg2 == [S.reg EXCEPT ![h] = NoSession]
      rest == roster(reg2, p)
      left == [Msg("participant_left") EXCEPT !.sid = h, !.user_id = S.reg[h].user]
      S2 == Fanout([S EXCEPT !.reg = reg2], p, rest, left)
  IN IF p = 0 THEN S
     ELSE IF rest = {} THEN [S EXCEPT !.reg = reg2, !.pb[p] = NoState]
     ELSE S2

\* Handles other than h that map to (p, u) are evicted and told so.
RECURSIVE EvictAll(_, _)
EvictAll(S, hs) ==
  IF hs = {} THEN S
  ELSE LET g == CHOOSE x \in hs : TRUE
       IN EvictAll(SendTo(unregister(S, g), g, [Msg("superseded") EXCEPT !.sid = g]), hs \ {g})

\* A registry that lets the older handles stay.
Evicted_none(reg, h, p, u) == {}

\* A registry in which a join evicts every other handle of the party.
Evicted_anyUser(reg, h, p, u) == {g \in Clients \ {h} : reg[g].party = p}

Evicted(reg, h, p, u) == {g \in Clients \ {h} : reg[g] = [party |-> p, user |-> u]}

\* register(handle, partyId, userId): evict, install, fan out, answer with the
\* roster and the playback state.
register(S, h, p, u, id) ==
  LET S1 == EvictAll(S, Evicted(S.reg, h, p, u))
      S2 == IF S1.reg[h].party \notin {0, p} THEN unregister(S1, h) ELSE S1
      S3 == [S2 EXCEPT !.reg[h] = [party |-> p, user |-> u]]
      joined == [Msg("participant_joined") EXCEPT !.sid = h, !.user_id = u]
      S4 == Fanout(S3, p, roster(S3.reg, p) \ {h}, joined)
  IN SendTo(S4, h, [Msg("join_ack") EXCEPT !.party_id = p, !.id = id,
                                           !.participants = roster(S3.reg, p),
                                           !.state = S.pb[p]])

\* A synchronizer that replaces the state by the fields provided.
Merge_replace(cur, upd) == upd

\* A synchronizer that merges a content change like any other field.
Merge_noReset(cur, upd) ==
  [playing |-> IF upd.playing # NULL THEN upd.playing ELSE cur.playing,
   currentTime |-> IF upd.currentTime # NULL THEN upd.currentTime ELSE cur.currentTime,
   tmdbId |-> IF upd.tmdbId # NULL THEN upd.tmdbId ELSE cur.tmdbId]

\* merge of the provided fields; a content change resets to playing, position 0.
Merge(cur, upd) ==
  LET base == IF upd.tmdbId # NULL
              THEN [playing |-> 1, currentTime |-> 0, tmdbId |-> upd.tmdbId]
              ELSE cur
  IN [playing |-> IF upd.playing # NULL THEN upd.playing ELSE base.playing,
      currentTime |-> IF upd.currentTime # NULL THEN upd.currentTime ELSE base.currentTime,
      tmdbId |-> base.tmdbId]

\* A synchronizer that sends the state to the whole roster, the caller included.
setState_toAll(S, p, h, upd) ==
  LET st == Merge(S.pb[p], upd)
  IN Fanout([S EXCEPT !.pb[p] = st], p, roster(S.reg, p),
            [Msg("video_state_updated") EXCEPT !.sid = h, !.state = st])

\* setState(partyId, byHandle, fields): merge and send the full state to the others.
setState(S, p, h, upd) ==
  LET st == Merge(S.pb[p], upd)
  IN Fanout([S EXCEPT !.pb[p] = st], p, roster(S.reg, p) \ {h},
            [Msg("video_state_updated") EXCEPT !.sid = h, !.state = st])

\* A relay that asks only whether the sender is registered.
Authorized_senderOnly(reg, from, to) == reg[from].party # 0

\* relay(fromHandle, toHandle, payload)
Authorized(reg, from, to) == reg[from].party # 0 /\ reg[to].party = reg[from].party

\* A relay that hands the newest payload to the receiver first.
relay_newestFirst(S, from, to, payload) ==
  [S EXCEPT !.inb[to] = <<[Msg("signal_received") EXCEPT !.sid = from, !.signal = payload]>> \o @]

relay(S, from, to, payload) ==
  SendTo(S, to, [Msg("signal_received") EXCEPT !.sid = from, !.signal = payload])

\* The handler's result becomes the server's state, within the model's bounds.
Commit(S, c) ==
  /\ \A h \in Clients : Len(S.inb[h]) <= MaxQueue
  /\ \A p \in PartyIds : S.ver[p] <= MaxEvents
  /\ registry' = S.reg
  /\ playback' = S.pb
  /\ ver' = S.ver
  /\ inbox' = S.inb
  /\ toServer' = [toServer EXCEPT ![c] = Tail(@)]
  /\ UNCHANGED <<storeVars, pageVars, socketVars>>

Pending(c, type) == toServer[c] # << >> /\ Head(toServer[c]).type = type

Failure(op, id, error) == [Msg(op) EXCEPT !.id = id, !.success = FALSE, !.error = error]

\* join_party {party_id, user_id}
join_watch_party(c) ==
  /\ Pending(c, "join_watch_party")
  /\ LET m == Head(toServer[c])
         p == m.party_id
         u == m.user_id
         error == IF ~PartyLive(p) THEN "PartyEnded"
                  ELSE IF ~HasRow(p, u) THEN "NotInvited" ELSE ""
     IN IF error = ""
        THEN Commit(register(ServerState, c, p, u, m.id), c)
        ELSE Commit(SendTo(ServerState, c, Failure("join_ack", m.id, error)), c)

\* leave_party {party_id, user_id}: the calling handle is unregistered.
leave_watch_party(c) ==
  /\ Pending(c, "leave_watch_party")
  /\ LET m == Head(toServer[c])
         ok == registry[c].party # 0 /\ registry[c].party = m.party_id
     IN IF ok
        THEN Commit(SendTo(unregister(ServerState, c), c, [Msg("leave_ack") EXCEPT !.id = m.id]), c)
        ELSE Commit(SendTo(ServerState, c, Failure("leave_ack", m.id, "NotAuthorized")), c)

\* relay_signal {to_handle, payload}: passed on, or dropped without a word.
send_signal(c) ==
  /\ Pending(c, "send_signal")
  /\ LET m == Head(toServer[c])
         error == IF ~Authorized(registry, c, m.sid) THEN "NotAuthorized"
                  ELSE IF ~PartyLive(registry[c].party) THEN "PartyEnded" ELSE ""
     IN IF error = ""
        THEN Commit(relay(ServerState, c, m.sid, m.signal), c)
        ELSE Commit(ServerState, c)

\* set_playback_state {playing?, position?, content_id?}
video_state_change(c) ==
  /\ Pending(c, "video_state_change")
  /\ LET m == Head(toServer[c])
         p == m.party_id
         error == IF ~PartyLive(p) THEN "PartyEnded"
                  ELSE IF registry[c].party # p THEN "NotAuthorized" ELSE ""
     IN IF error = ""
        THEN Commit(SendTo(setState(ServerState, p, c, m.state), c,
                           [Msg("state_ack") EXCEPT !.id = m.id]), c)
        ELSE Commit(SendTo(ServerState, c, Failure("state_ack", m.id, error)), c)

\* ---------------------------------------------- client: lib/socket.ts, session page

Slots == 1..MaxConns
Free == [peerID |-> "", initiator |-> FALSE, st |-> "free"]
Idle == [at |-> "idle", party |-> 0]

HasRoom(c) == Len(toServer[c]) < MaxQueue

\* A socket that sends its newest message first.
EmitAck_newestFirst(c, m) ==
  /\ HasRoom(c)
  /\ ackId[c] < MaxEmits
  /\ ackId' = [ackId EXCEPT ![c] = @ + 1]
  /\ toServer' = [toServer EXCEPT ![c] = <<[m EXCEPT !.id = ackId[c] + 1]>> \o @]

\* socket.emit(event, payload, callback): the callback takes the next ack id.
EmitAck(c, m) ==
  /\ HasRoom(c)
  /\ ackId[c] < MaxEmits
  /\ ackId' = [ackId EXCEPT ![c] = @ + 1]
  /\ toServer' = [toServer EXCEPT ![c] = Append(@, [m EXCEPT !.id = ackId[c] + 1])]

JoinMsg(c, p) == [Msg("join_watch_party") EXCEPT !.party_id = p, !.user_id = user[c]]
LeaveMsg(c, p) == [Msg("leave_watch_party") EXCEPT !.party_id = p, !.user_id = user[c]]

\* Object.values(peers).forEach(peer => peer.destroy()); every key deleted.
DestroyedAll(c) ==
  [i \in Slots |-> IF \E k \in Clients : peers[c][k] = i THEN Free ELSE conns[c][i]]

NoPeers == [k \in Clients |-> 0]

\* new SimplePeer({initiator, ...}); peers[peerID] = peer.  A receiving peer
\* is handed the incoming signal at once.
FreeSlot(cs) == CHOOSE i \in Slots : cs[i].st = "free" /\ \A j \in Slots : j < i => cs[j].st # "free"

NewPeer(peerID, isInitiator, incomingSignal) ==
  [peerID |-> peerID, initiator |-> isInitiator,
   st |-> IF isInitiator THEN "new"
          ELSE IF incomingSignal = "offer" THEN "answering" ELSE "failed"]

createPeer(c, peerID, isInitiator, incomingSignal) ==
  /\ \E i \in Slots : conns[c][i].st = "free"
  /\ conns' = [conns EXCEPT ![c][FreeSlot(conns[c])] = NewPeer(peerID, isInitiator, incomingSignal)]
  /\ peers' = [peers EXCEPT ![c][peerID] = FreeSlot(conns[c])]

\* peer.signal(data) on an existing instance: the answer completes an
\* initiator's offer; any other payload fails the negotiation.
Signalled(inst, signal) ==
  IF inst.initiator /\ inst.st = "offered" /\ signal = "answer"
  THEN [inst EXCEPT !.st = "connected"]
  ELSE [inst EXCEPT !.st = "failed"]

\* The session page is opened for party p: connectSocket, then setupMedia waits
\* for getUserMedia.
MountSession(c, p) ==
  /\ mounted[c] = 0
  /\ pc[c].at = "idle"
  /\ mounted' = [mounted EXCEPT ![c] = p]
  /\ pc' = [pc EXCEPT ![c] = [at |-> "media", party |-> p]]
  /\ connectionStatus' = [connectionStatus EXCEPT ![c] = "connecting"]
  /\ UNCHANGED <<user, viewVars, joinCallbacks, storeVars, serverVars, netVars, socketVars>>

\* The callback handed to joinWatchParty awaits the answer to the join being
\* emitted; the callback of a page that is gone sets no state.
Awaiting(c, kind) ==
  IF mounted[c] = 0 THEN joinCallbacks
  ELSE [joinCallbacks EXCEPT ![c] = @ \cup {[id |-> ackId[c] + 1, kind |-> kind]}]

\* The state of a page as it is first rendered.
NoView(c) ==
  /\ participants' = [participants EXCEPT ![c] = {}]
  /\ playing' = [playing EXCEPT ![c] = 1]
  /\ currentTime' = [currentTime EXCEPT ![c] = 0]
  /\ tmdbId' = [tmdbId EXCEPT ![c] = 0]
  /\ seeking' = [seeking EXCEPT ![c] = FALSE]

\* The cleanup of the socket effect: leaveWatchParty(partyId), then cleanupMedia.
SocketEffectCleanup(c) ==
  /\ EmitAck(c, LeaveMsg(c, mounted[c]))
  /\ current_party_id' = [current_party_id EXCEPT ![c] = 0]
  /\ conns' = [conns EXCEPT ![c] = DestroyedAll(c)]
  /\ peers' = [peers EXCEPT ![c] = NoPeers]
  /\ localStream' = [localStream EXCEPT ![c] = FALSE]

\* setupMedia: initUserMedia resolved or failed; the party is joined either way.
setupMedia(c, granted) ==
  /\ pc[c].at = "media"
  /\ localStream' = [localStream EXCEPT ![c] = granted \/ @]
  /\ current_party_id' = [current_party_id EXCEPT ![c] = pc[c].party]
  /\ EmitAck(c, JoinMsg(c, pc[c].party))
  /\ joinCallbacks' = Awaiting(c, "setup")
  /\ pc' = [pc EXCEPT ![c] = Idle]
  /\ UNCHANGED <<mounted, user, connectionStatus, viewVars, peers, conns, inbox,
                 storeVars, serverVars>>

\* The page is closed: the socket effect's cleanup runs and the page's state is gone.
Unmount(c) ==
  /\ mounted[c] # 0
  /\ SocketEffectCleanup(c)
  /\ mounted' = [mounted EXCEPT ![c] = 0]
  /\ NoView(c)
  /\ joinCallbacks' = [joinCallbacks EXCEPT ![c] = {}]
  /\ UNCHANGED <<user, pc, connectionStatus, inbox, storeVars, serverVars>>

\* socket.on('connect_error') of the page.
connect_error(c) ==
  /\ mounted[c] # 0
  /\ connectionStatus[c] # "error"
  /\ connectionStatus' = [connectionStatus EXCEPT ![c] = "error"]
  /\ UNCHANGED <<mounted, user, pc, viewVars, joinCallbacks, storeVars, serverVars, netVars,
                 socketVars>>

\* handleReconnect: cleanupMedia now, the rest after the timer.
handleReconnect(c) ==
  /\ mounted[c] # 0
  /\ connectionStatus[c] = "error"
  /\ pc[c].at = "idle"
  /\ connectionStatus' = [connectionStatus EXCEPT ![c] = "connecting"]
  /\ localStream' = [localStream EXCEPT ![c] = FALSE]
  /\ conns' = [conns EXCEPT ![c] = DestroyedAll(c)]
  /\ peers' = [peers EXCEPT ![c] = NoPeers]
  /\ pc' = [pc EXCEPT ![c] = [at |-> "timer", party |-> mounted[c]]]
  /\ UNCHANGED <<mounted, user, viewVars, joinCallbacks, ackId, current_party_id, storeVars,
                 serverVars, netVars>>

\* handleReconnect's timer: initUserMedia, and only if it succeeds joinWatchParty.
reconnectJoin(c, granted) ==
  /\ pc[c].at = "timer"
  /\ pc' = [pc EXCEPT ![c] = Idle]
  /\ IF granted
     THEN /\ localStream' = [localStream EXCEPT ![c] = TRUE]
          /\ current_party_id' = [current_party_id EXCEPT ![c] = pc[c].party]
          /\ EmitAck(c, JoinMsg(c, pc[c].party))
          /\ joinCallbacks' = Awaiting(c, "reconnect")
          /\ UNCHANGED connectionStatus
     ELSE /\ connectionStatus' = [connectionStatus EXCEPT ![c] = "error"]
          /\ UNCHANGED <<localStream, current_party_id, ackId, toServer, joinCallbacks>>
  /\ UNCHANGED <<mounted, user, viewVars, peers, conns, inbox, storeVars, serverVars>>

\* updateVideoState(partyId, state)
updateVideoState(c, p, state) ==
  /\ mounted[c] = p
  /\ EmitAck(c, [Msg("video_state_change") EXCEPT !.party_id = p, !.state = state])
  /\ UNCHANGED <<inbox, pageVars, current_party_id, localStream, peers, conns,
                 storeVars, serverVars>>

\* An event arrives on the socket.
Received(c, type) ==
  /\ inbox[c] # << >>
  /\ Head(inbox[c]).type = type
  /\ inbox' = [inbox EXCEPT ![c] = Tail(@)]

\* A change of the page's tmdbId re-runs the socket effect, whose cleanup
\* leaves the party and releases the media.
TmdbIdSet(c, id) ==
  /\ tmdbId' = [tmdbId EXCEPT ![c] = id]
  /\ IF id # tmdbId[c]
     THEN SocketEffectCleanup(c)
     ELSE UNCHANGED <<toServer, socketVars>>

\* The callback of joinWatchParty.  A failure shows the error banner; a
\* success sets the participants and, from the video_state of the answer, the
\* tmdbId and (first join only) playing.  The position is not taken over.
on_join_ack(c) ==
  /\ Received(c, "join_ack")
  /\ LET m == Head(inbox[c])
         cb == {k \in joinCallbacks[c] : k.id = m.id}
         setup == \E k \in cb : k.kind = "setup"
         st == m.state
     IN /\ joinCallbacks' = [joinCallbacks EXCEPT ![c] = @ \ cb]
        /\ connectionStatus' = [connectionStatus EXCEPT ![c] =
                                  IF ~m.success /\ cb # {} THEN "error" ELSE @]
        /\ IF m.success /\ cb # {}
           THEN /\ participants' = [participants EXCEPT ![c] = m.participants]
                /\ playing' = [playing EXCEPT ![c] =
                                 IF st # NoState /\ setup THEN st.playing ELSE @]
                /\ TmdbIdSet(c, IF st # NoState /\ st.tmdbId \notin {NULL, 0}
                                THEN st.tmdbId ELSE tmdbId[c])
                /\ UNCHANGED <<currentTime, seeking>>
           ELSE UNCHANGED <<viewVars, toServer, socketVars>>
  /\ UNCHANGED <<mounted, user, pc, storeVars, serverVars>>

\* socket.on('video_state_updated') of the page, when a video element is
\* rendered: playing, the position (a seek of the element) and tmdbId follow
\* the state received.
on_video_state_updated(c) ==
  /\ Received(c, "video_state_updated")
  /\ LET st == Head(inbox[c]).state
     IN IF mounted[c] # 0 /\ tmdbId[c] # 0
        THEN /\ playing' = [playing EXCEPT ![c] = IF st.playing # NULL THEN st.playing ELSE @]
             /\ currentTime' = [currentTime EXCEPT ![c] =
                                  IF st.currentTime # NULL THEN st.currentTime ELSE @]
             /\ seeking' = [seeking EXCEPT ![c] = @ \/ st.currentTime # NULL]
             /\ TmdbIdSet(c, IF st.tmdbId # NULL THEN st.tmdbId ELSE tmdbId[c])
             /\ UNCHANGED participants
        ELSE UNCHANGED <<viewVars, toServer, socketVars>>
  /\ UNCHANGED <<mounted, user, pc, connectionStatus, joinCallbacks, storeVars, serverVars>>

\* onSeeked of the video element: handleSeek sends the element's position.
handleSeek(c) ==
  /\ seeking[c]
  /\ mounted[c] # 0 /\ tmdbId[c] # 0
  /\ seeking' = [seeking EXCEPT ![c] = FALSE]
  /\ EmitAck(c, [Msg("video_state_change") EXCEPT
                    !.party_id = mounted[c],
                    !.state = [playing |-> NULL, currentTime |-> currentTime[c], tmdbId |-> NULL]])
  /\ UNCHANGED <<inbox, mounted, user, pc, connectionStatus, participants, playing, currentTime,
                 tmdbId, joinCallbacks, current_party_id, localStream, peers, conns,
                 storeVars, serverVars>>

\* onSelectMovie of the search overlay: setTmdbId(id), then updateVideoState
\* with playing, position 0 and the new content.  The update is emitted by the
\* handler; the socket effect's cleanup runs after it if tmdbId has changed.
onSelectMovie(c, id) ==
  /\ mounted[c] # 0
  /\ tmdbId' = [tmdbId EXCEPT ![c] = id]
  /\ LET update == [Msg("video_state_change") EXCEPT
                      !.party_id = mounted[c], !.id = ackId[c] + 1,
                      !.state = [playing |-> 1, currentTime |-> 0, tmdbId |-> id]]
         leave == [LeaveMsg(c, mounted[c]) EXCEPT !.id = ackId[c] + 2]
     IN IF id # tmdbId[c]
        THEN /\ Len(toServer[c]) + 2 <= MaxQueue
             /\ ackId[c] + 2 <= MaxEmits
             /\ toServer' = [toServer EXCEPT ![c] = @ \o <<update, leave>>]
             /\ ackId' = [ackId EXCEPT ![c] = @ + 2]
             /\ current_party_id' = [current_party_id EXCEPT ![c] = 0]
             /\ conns' = [conns EXCEPT ![c] = DestroyedAll(c)]
             /\ peers' = [peers EXCEPT ![c] = NoPeers]
             /\ localStream' = [localStream EXCEPT ![c] = FALSE]
        ELSE /\ EmitAck(c, update)
             /\ UNCHANGED <<current_party_id, localStream, peers, conns>>
  /\ UNCHANGED <<inbox, mounted, user, pc, connectionStatus, participants, playing, currentTime,
                 seeking, joinCallbacks, storeVars, serverVars>>

\* A poll that fills in the content and never looks at the status.
poll_ignoreStatus(c) ==
  /\ mounted[c] # 0
  /\ tmdbId[c] = 0 /\ get_watch_party_details(mounted[c]).tmdb_id # 0
  /\ TmdbIdSet(c, get_watch_party_details(mounted[c]).tmdb_id)
  /\ UNCHANGED <<inbox, mounted, user, pc, connectionStatus, participants, playing, currentTime,
                 seeking, joinCallbacks, storeVars, serverVars>>

\* The page's 5-second poll of /watchparty/details, when it has something to
\* do.  status ended: router.push('/'), the page is gone and the socket
\* effect's cleanup has run; if the poll also filled in a null tmdbId the
\* cleanup has run twice.  Otherwise a null tmdbId is filled in from the
\* party's row, which re-runs the socket effect.
poll(c) ==
  /\ mounted[c] # 0
  /\ LET data == get_watch_party_details(mounted[c])
         fill == tmdbId[c] = 0 /\ data.tmdb_id # 0
         n == IF fill THEN 2 ELSE 1
         leave(k) == [LeaveMsg(c, mounted[c]) EXCEPT !.id = ackId[c] + k]
     IN IF data.status = "ended"
        THEN /\ Len(toServer[c]) + n <= MaxQueue
             /\ ackId[c] + n <= MaxEmits
             /\ toServer' = [toServer EXCEPT ![c] = @ \o [k \in 1..n |-> leave(k)]]
             /\ ackId' = [ackId EXCEPT ![c] = @ + n]
             /\ current_party_id' = [current_party_id EXCEPT ![c] = 0]
             /\ conns' = [conns EXCEPT ![c] = DestroyedAll(c)]
             /\ peers' = [peers EXCEPT ![c] = NoPeers]
             /\ localStream' = [localStream EXCEPT ![c] = FALSE]
             /\ mounted' = [mounted EXCEPT ![c] = 0]
             /\ NoView(c)
             /\ joinCallbacks' = [joinCallbacks EXCEPT ![c] = {}]
        ELSE /\ fill
             /\ TmdbIdSet(c, data.tmdb_id)
             /\ UNCHANGED <<mounted, participants, playing, currentTime, seeking, joinCallbacks>>
  /\ UNCHANGED <<inbox, user, pc, connectionStatus, storeVars, serverVars>>

\* Events socket.ts only logs or has no handler for.
on_logged(c) ==
  /\ \E type \in {"leave_ack", "state_ack", "superseded"} : Received(c, type)
  /\ UNCHANGED <<toServer, pageVars, socketVars, storeVars, serverVars>>

\* socket.on('participant_joined'): with a local stream, initiate toward the newcomer.
on_participant_joined(c) ==
  /\ Received(c, "participant_joined")
  /\ LET m == Head(inbox[c])
     IN IF localStream[c] /\ c # m.sid
        THEN createPeer(c, m.sid, TRUE, "none")
        ELSE UNCHANGED <<peers, conns>>
  /\ UNCHANGED <<toServer, pageVars, ackId, current_party_id, localStream, storeVars, serverVars>>

\* socket.on('participant_left'): destroy and forget the peer of that sid.
on_participant_left(c) ==
  /\ Received(c, "participant_left")
  /\ LET m == Head(inbox[c])
         i == peers[c][m.sid]
     IN IF i # 0
        THEN /\ conns' = [conns EXCEPT ![c][i] = Free]
             /\ peers' = [peers EXCEPT ![c][m.sid] = 0]
        ELSE UNCHANGED <<peers, conns>>
  /\ UNCHANGED <<toServer, pageVars, ackId, current_party_id, localStream, storeVars, serverVars>>

\* socket.on('signal_received'): apply to the known peer, else create the
\* receiving end.
on_signal_received(c) ==
  /\ Received(c, "signal_received")
  /\ LET m == Head(inbox[c])
         i == peers[c][m.sid]
     IN IF i # 0
        THEN /\ conns' = [conns EXCEPT ![c][i] = Signalled(@, m.signal)]
             /\ UNCHANGED peers
        ELSE createPeer(c, m.sid, FALSE, m.signal)
  /\ UNCHANGED <<toServer, pageVars, ackId, current_party_id, localStream, storeVars, serverVars>>

\* peer.on('signal'): the instance's offer or answer goes out through the socket.
peer_signal(c, i) ==
  /\ \/ conns[c][i].st = "new" /\ conns[c][i].initiator
     \/ conns[c][i].st = "answering"
  /\ HasRoom(c)
  /\ toServer' = [toServer EXCEPT ![c] = Append(@,
        [Msg("send_signal") EXCEPT !.sid = conns[c][i].peerID,
                                   !.party_id = current_party_id[c],
                                   !.signal = IF conns[c][i].initiator THEN "offer" ELSE "answer"])]
  /\ conns' = [conns EXCEPT ![c][i].st = IF conns[c][i].initiator THEN "offered" ELSE "connected"]
  /\ UNCHANGED <<inbox, pageVars, ackId, current_party_id, localStream, peers, storeVars, serverVars>>

\* An 'error' handler that tears down every connection of the client, as the
\* socket's 'disconnect' handler does.
peer_error_destroyAll(c, i) ==
  /\ conns[c][i].st = "failed"
  /\ conns' = [conns EXCEPT ![c] = [s \in Slots |-> Free]]
  /\ peers' = [peers EXCEPT ![c] = NoPeers]
  /\ UNCHANGED <<netVars, pageVars, ackId, current_party_id, localStream, storeVars, serverVars>>

\* peer.on('error'): the failed instance is gone; the handler destroys and
\* deletes whatever peers[peerID] holds now.
peer_error(c, i) ==
  /\ conns[c][i].st = "failed"
  /\ LET k == conns[c][i].peerID
         j == peers[c][k]
     IN /\ conns' = [conns EXCEPT ![c] = [s \in Slots |-> IF s = i \/ s = j THEN Free ELSE @[s]]]
        /\ peers' = [peers EXCEPT ![c][k] = 0]
  /\ UNCHANGED <<netVars, pageVars, ackId, current_party_id, localStream, storeVars, serverVars>>

\* The remote end of a connected instance is gone: the instance closes, and
\* peer.on('close') deletes whatever entry peers[peerID] holds now, without
\* destroying it.
RemoteGone(c, i) ==
  LET k == conns[c][i].peerID
  IN ~\E j \in Slots : conns[k][j].peerID = c /\ conns[k][j].st \in {"answering", "offered", "connected"}

peer_close(c, i) ==
  /\ conns[c][i].st = "connected"
  /\ RemoteGone(c, i)
  /\ conns' = [conns EXCEPT ![c][i] = Free]
  /\ peers' = [peers EXCEPT ![c][conns[c][i].peerID] = 0]
  /\ UNCHANGED <<netVars, pageVars, ackId, current_party_id, localStream, storeVars, serverVars>>

\* The same loss seen as an ICE failure: the instance fails and its 'error'
\* event is still to come.
ice_failed(c, i) ==
  /\ conns[c][i].st = "connected"
  /\ RemoteGone(c, i)
  /\ conns' = [conns EXCEPT ![c][i].st = "failed"]
  /\ UNCHANGED <<peers, netVars, pageVars, ackId, current_party_id, localStream, storeVars, serverVars>>

\* A transport-level disconnect invokes unregister; what was on its way to
\* the handle is lost.
Dropped(S, h) == unregister([S EXCEPT !.inb[h] = << >>], h)

\* The transport of socket c drops.  The server sees the handle go; on the
\* client the socket's disconnect handler destroys every peer and the page
\* shows the error banner if the reason is one it knows.
DisconnectReasons == {"transport close", "ping timeout"}

disconnect(c, reason) ==
  /\ mounted[c] # 0
  /\ LET S == Dropped(ServerState, c)
     IN /\ \A h \in Clients : Len(S.inb[h]) <= MaxQueue
        /\ \A p \in PartyIds : S.ver[p] <= MaxEvents
        /\ registry' = S.reg
        /\ playback' = S.pb
        /\ ver' = S.ver
        /\ inbox' = S.inb
  /\ toServer' = [toServer EXCEPT ![c] = << >>]
  /\ conns' = [conns EXCEPT ![c] = DestroyedAll(c)]
  /\ peers' = [peers EXCEPT ![c] = NoPeers]
  /\ connectionStatus' = [connectionStatus EXCEPT ![c] =
                            IF reason = "transport close" THEN "error" ELSE @]
  /\ UNCHANGED <<mounted, user, pc, viewVars, joinCallbacks, ackId, current_party_id,
                 localStream, storeVars>>

InitServer ==
  /\ registry = [h \in Clients |-> NoSession]
  /\ playback = [p \in PartyIds |-> NoState]
  /\ ver = [p \in PartyIds |-> 0]
  /\ toServer = [c \in Clients |-> << >>]
  /\ inbox = [c \in Clients |-> << >>]

InitClient ==
  /\ mounted = [c \in Clients |-> 0]
  /\ pc = [c \in Clients |-> Idle]
  /\ connectionStatus = [c \in Clients |-> "connecting"]
  /\ participants = [c \in Clients |-> {}]
  /\ playing = [c \in Clients |-> 1]
  /\ currentTime = [c \in Clients |-> 0]
  /\ tmdbId = [c \in Clients |-> 0]
  /\ seeking = [c \in Clients |-> FALSE]
  /\ joinCallbacks = [c \in Clients |-> {}]
  /\ ackId = [c \in Clients |-> 0]
  /\ current_party_id = [c \in Clients |-> 0]
  /\ localStream = [c \in Clients |-> FALSE]
  /\ peers = [c \in Clients |-> NoPeers]
  /\ conns = [c \in Clients |-> [i \in Slots |-> Free]]

InitStore ==
  /\ parties = << >>
  /\ rows = << >>
  /\ now = 1
  /\ reply = NoReply

Hosts == {"u1"}
FriendLists == {<< >>, <<"u2">>, <<"u2", "u3">>, <<"u1", "u2">>, <<"u2", "u2">>}

\* ------------------------------------------------------------ specifications

\* The Party Store alone: every call, on two parties, with the clock running.
StoreInit ==
  /\ InitStore
  /\ InitServer
  /\ InitClient
  /\ user = [c \in Clients |-> "u1"]

NextStore ==
  \/ /\ Len(parties) < Cardinality(PartyIds)
     /\ \E h \in Hosts, f \in FriendLists : create_watch_party(h, 42, f)
  \/ \E p \in PartyIds, u \in Users : accept_watch_party(p, u)
  \/ \E p \in PartyIds : end_watch_party(p)
  \/ Tick

StoreSpec == StoreInit /\ [][NextStore]_vars

\* The Party Store with the coordination server and two browsers: the host u1
\* on socket c1, with a camera, and the invited friend u2 on socket c2, without.
Browsers == {"c1", "c2"}

Init ==
  /\ InitStore
  /\ InitServer
  /\ InitClient
  /\ user = [c \in Clients |-> IF c = "c1" THEN "u1" ELSE "u2"]

\* The partial playback states the page sends: pause (handlePlayPause) and a
\* seek (handleSeek).
Pause == [playing |-> 0, currentTime |-> NULL, tmdbId |-> NULL]
SeekTo == [playing |-> NULL, currentTime |-> 120, tmdbId |-> NULL]
Updates == {Pause, SeekTo}

Next ==
  \/ /\ Len(parties) < 1
     /\ create_watch_party("u1", 42, <<"u2">>)
  \/ accept_watch_party(1, "u2")
  \/ end_watch_party(1)
  \/ \E c \in Browsers : MountSession(c, 1)
  \/ setupMedia("c1", TRUE)
  \/ setupMedia("c2", FALSE)
  \/ \E c \in Browsers : Unmount(c)
  \/ updateVideoState("c2", 1, Pause)
  \/ \E c \in Browsers : join_watch_party(c)
  \/ \E c \in Browsers : leave_watch_party(c)
  \/ \E c \in Browsers : send_signal(c)
  \/ \E c \in Browsers : video_state_change(c)
  \/ \E c \in Browsers : on_join_ack(c)
  \/ \E c \in Browsers : on_logged(c)
  \/ \E c \in Browsers : on_video_state_updated(c)
  \/ \E c \in Browsers : on_participant_joined(c)
  \/ \E c \in Browsers : on_participant_left(c)
  \/ \E c \in Browsers : on_signal_received(c)
  \/ \E c \in Browsers, i \in Slots : peer_signal(c, i)
  \/ \E c \in Browsers, i \in Slots : peer_error(c, i)

Spec == Init /\ [][Next]_vars

\* The store as create_watch_party(host_id, 42, friend_ids) leaves it at time 1.
Created(host_id, friend_ids) ==
  /\ parties = <<[host_id |-> host_id, tmdb_id |-> 42, status |-> "pending"]>>
  /\ rows = <<[party_id |-> 1, user_id |-> host_id, joined |-> 1, joined_at |-> 1]>>
            \o InviteRows(1, friend_ids)
  /\ now = 1
  /\ reply = [op |-> "create", party_id |-> 1, user_id |-> host_id, result |-> "ok"]

\* The order in which the sockets joined.
Order(c) == CASE c = "c1" -> 1 [] c = "c2" -> 2 [] OTHER -> 3

\* The sockets in hs have the session page of party 1 open and are registered
\* in it, having joined in order, every join answered; nobody has a camera.
InParty(hs) ==
  /\ registry = [h \in Clients |-> IF h \in hs THEN [party |-> 1, user |-> user[h]] ELSE NoSession]
  /\ playback = [p \in PartyIds |-> NoState]
  /\ toServer = [c \in Clients |-> << >>]
  /\ inbox = [c \in Clients |-> << >>]
  /\ mounted = [c \in Clients |-> IF c \in hs THEN 1 ELSE 0]
  /\ pc = [c \in Clients |-> Idle]
  /\ connectionStatus = [c \in Clients |-> "connecting"]
  /\ participants = [c \in Clients |->
                       IF c \in hs THEN {h \in hs : Order(h) <= Order(c)} ELSE {}]
  /\ playing = [c \in Clients |-> 1]
  /\ currentTime = [c \in Clients |-> 0]
  /\ tmdbId = [c \in Clients |-> 0]
  /\ seeking = [c \in Clients |-> FALSE]
  /\ joinCallbacks = [c \in Clients |-> {}]
  /\ ackId = [c \in Clients |-> IF c \in hs THEN 1 ELSE 0]
  /\ current_party_id = [c \in Clients |-> IF c \in hs THEN 1 ELSE 0]
  /\ localStream = [c \in Clients |-> FALSE]
  /\ peers = [c \in Clients |-> NoPeers]
  /\ conns = [c \in Clients |-> [i \in Slots |-> Free]]
  /\ ver = [p \in PartyIds |-> IF p = 1 /\ hs # {} THEN Cardinality(hs) - 1 ELSE 0]

\* Presence: u1 (c1) and u2 (c2) are in party 1; u2 opens the session in a
\* second tab (c3) and presses Reconnect in the first.
PresenceInit ==
  /\ user = [c \in Clients |-> IF c = "c1" THEN "u1" ELSE "u2"]
  /\ Created("u1", <<"u2">>)
  /\ InParty({"c1", "c2"})

NextPresence ==
  \/ MountSession("c3", 1)
  \/ setupMedia("c3", FALSE)
  \/ Unmount("c3")
  \/ connect_error("c2")
  \/ handleReconnect("c2")
  \/ \E g \in BOOLEAN : reconnectJoin("c2", g)
  \/ \E c \in Clients : join_watch_party(c)
  \/ \E c \in Clients : leave_watch_party(c)
  \/ \E c \in Clients : on_join_ack(c)
  \/ \E c \in Clients : on_logged(c)
  \/ \E c \in Clients : on_participant_joined(c)
  \/ \E c \in Clients : on_participant_left(c)

PresenceSpec == PresenceInit /\ [][NextPresence]_vars

\* Playback: u1 and u2 are in party 1; u1 drives the player while u3 comes
\* and goes.
SyncInit ==
  /\ user = [c \in Clients |-> IF c = "c1" THEN "u1" ELSE IF c = "c2" THEN "u2" ELSE "u3"]
  /\ Created("u1", <<"u2", "u3">>)
  /\ InParty(Browsers)

NextSync ==
  \/ \E s \in Updates : updateVideoState("c1", 1, s)
  \/ \E c \in Clients : video_state_change(c)
  \/ MountSession("c3", 1)
  \/ setupMedia("c3", FALSE)
  \/ Unmount("c3")
  \/ \E c \in Clients : join_watch_party(c)
  \/ \E c \in Clients : leave_watch_party(c)
  \/ \E c \in Clients : on_join_ack(c)
  \/ \E c \in Clients : on_logged(c)
  \/ \E c \in Clients : on_video_state_updated(c)
  \/ \E c \in Clients : on_participant_joined(c)
  \/ \E c \in Clients : on_participant_left(c)

SyncSpec == SyncInit /\ [][NextSync]_vars

\* Peer mesh: party 1 exists; u1 opens the session with or without a camera
\* and may leave, u2 opens it with a camera and may press Reconnect.
MeshInit ==
  /\ user = [c \in Clients |-> IF c = "c1" THEN "u1" ELSE "u2"]
  /\ Created("u1", <<"u2">>)
  /\ InParty({})

NextMesh ==
  \/ \E c \in Browsers : MountSession(c, 1)
  \/ \E g \in BOOLEAN : setupMedia("c1", g)
  \/ setupMedia("c2", TRUE)
  \/ Unmount("c1")
  \/ connect_error("c2")
  \/ handleReconnect("c2")
  \/ \E g \in BOOLEAN : reconnectJoin("c2", g)
  \/ \E c \in Browsers : join_watch_party(c)
  \/ \E c \in Browsers : leave_watch_party(c)
  \/ \E c \in Browsers : send_signal(c)
  \/ \E c \in Browsers : on_join_ack(c)
  \/ \E c \in Browsers : on_logged(c)
  \/ \E c \in Browsers : on_participant_joined(c)
  \/ \E c \in Browsers : on_participant_left(c)
  \/ \E c \in Browsers : on_signal_received(c)
  \/ \E c \in Browsers, i \in Slots : peer_signal(c, i)
  \/ \E c \in Browsers, i \in Slots : peer_error(c, i)

MeshSpec == MeshInit /\ [][NextMesh]_vars

\* Relay: u1 (c1) and u2 (c2), both with a camera, are in party 1 and c1 is
\* about to learn of c2; u2 may leave, open party 1 or party 2 again, and the
\* party may be ended.
RelayInit ==
  /\ user = [c \in Clients |-> IF c = "c1" THEN "u1" ELSE "u2"]
  /\ parties = <<[host_id |-> "u1", tmdb_id |-> 42, status |-> "pending"],
                 [host_id |-> "u1", tmdb_id |-> 42, status |-> "pending"]>>
  /\ rows = <<[party_id |-> 1, user_id |-> "u1", joined |-> 1, joined_at |-> 1]>>
            \o InviteRows(1, <<"u2">>)
            \o <<[party_id |-> 2, user_id |-> "u1", joined |-> 1, joined_at |-> 1]>>
            \o InviteRows(2, <<"u2">>)
  /\ now = 1
  /\ reply = [op |-> "create", party_id |-> 2, user_id |-> "u1", result |-> "ok"]
  /\ registry = [h \in Clients |-> IF h \in Browsers THEN [party |-> 1, user |-> user[h]] ELSE NoSession]
  /\ playback = [p \in PartyIds |-> NoState]
  /\ ver = [p \in PartyIds |-> IF p = 1 THEN 1 ELSE 0]
  /\ toServer = [c \in Clients |-> << >>]
  /\ inbox = [c \in Clients |->
                IF c = "c1"
                THEN <<[Msg("participant_joined") EXCEPT !.sid = "c2", !.user_id = "u2",
                                                         !.party_id = 1, !.ver = 1]>>
                ELSE << >>]
  /\ mounted = [c \in Clients |-> IF c \in Browsers THEN 1 ELSE 0]
  /\ pc = [c \in Clients |-> Idle]
  /\ connectionStatus = [c \in Clients |-> "connecting"]
  /\ participants = [c \in Clients |->
                       IF c \in Browsers THEN {h \in Browsers : Order(h) <= Order(c)} ELSE {}]
  /\ playing = [c \in Clients |-> 1]
  /\ currentTime = [c \in Clients |-> 0]
  /\ tmdbId = [c \in Clients |-> 0]
  /\ seeking = [c \in Clients |-> FALSE]
  /\ joinCallbacks = [c \in Clients |-> {}]
  /\ ackId = [c \in Clients |-> IF c \in Browsers THEN 1 ELSE 0]
  /\ current_party_id = [c \in Clients |-> IF c \in Browsers THEN 1 ELSE 0]
  /\ localStream = [c \in Clients |-> c \in Browsers]
  /\ peers = [c \in Clients |-> NoPeers]
  /\ conns = [c \in Clients |-> [i \in Slots |-> Free]]

NextRelay ==
  \/ end_watch_party(1)
  \/ Unmount("c2")
  \/ \E p \in PartyIds : MountSession("c2", p)
  \/ setupMedia("c2", TRUE)
  \/ \E c \in Browsers : join_watch_party(c)
  \/ \E c \in Browsers : leave_watch_party(c)
  \/ \E c \in Browsers : send_signal(c)
  \/ \E c \in Browsers : on_join_ack(c)
  \/ \E c \in Browsers : on_logged(c)
  \/ \E c \in Browsers : on_participant_joined(c)
  \/ \E c \in Browsers : on_participant_left(c)
  \/ \E c \in Browsers : on_signal_received(c)
  \/ \E c \in Browsers, i \in Slots : peer_signal(c, i)
  \/ \E c \in Browsers, i \in Slots : peer_error(c, i)

RelaySpec == RelayInit /\ [][NextRelay]_vars

\* Content: u1 and u2 are in party 1; u1 sends partial states of every shape,
\* content changes included, while u3 opens the session page.
\* Every partial playback state updateVideoState accepts ({} aside).
PartialStates ==
  {s \in [playing : {NULL, 0, 1}, currentTime : {NULL, 120}, tmdbId : {NULL, 77}] : s # NoState}

NextContent ==
  \/ \E s \in PartialStates : updateVideoState("c1", 1, s)
  \/ \E c \in Clients : video_state_change(c)
  \/ MountSession("c3", 1)
  \/ setupMedia("c3", FALSE)
  \/ \E c \in Clients : join_watch_party(c)
  \/ \E c \in Clients : leave_watch_party(c)
  \/ \E c \in Clients : on_join_ack(c)
  \/ \E c \in Clients : on_logged(c)
  \/ \E c \in Clients : on_video_state_updated(c)
  \/ \E c \in Clients : handleSeek(c)
  \/ \E c \in Clients : on_participant_joined(c)
  \/ \E c \in Clients : on_participant_left(c)

ContentSpec == SyncInit /\ [][NextContent]_vars

\* Drop: u1 and u2, both with a camera, are in party 1 and c1 is about to
\* learn of c2; u2's page may show the error banner and be reconnected, and
\* u2's transport may drop.
NextDrop ==
  \/ connect_error("c2")
  \/ handleReconnect("c2")
  \/ \E g \in BOOLEAN : reconnectJoin("c2", g)
  \/ \E reason \in DisconnectReasons : disconnect("c2", reason)
  \/ \E c \in Browsers : join_watch_party(c)
  \/ \E c \in Browsers : send_signal(c)
  \/ \E c \in Browsers : on_join_ack(c)
  \/ \E c \in Browsers : on_participant_joined(c)
  \/ \E c \in Browsers : on_participant_left(c)
  \/ \E c \in Browsers : on_signal_received(c)
  \/ \E c \in Browsers, i \in Slots : peer_signal(c, i)
  \/ \E c \in Browsers, i \in Slots : peer_error(c, i)

DropSpec == RelayInit /\ [][NextDrop]_vars

\* Isolation: u1, u2 and u3, each with a camera, are in party 1.  u1 and u3
\* joined first and are connected; u2 has joined after them and both are about
\* to learn of it.  u2 may close the session page and open it again.
JoinedEvent(h, n) ==
  [Msg("participant_joined") EXCEPT !.sid = h, !.user_id = user[h], !.party_id = 1, !.ver = n]

ConnectedTo(k, isInitiator) ==
  [i \in Slots |-> IF i = 1 THEN [peerID |-> k, initiator |-> isInitiator, st |-> "connected"]
                   ELSE Free]

IsolationInit ==
  /\ user = [c \in Clients |-> IF c = "c1" THEN "u1" ELSE IF c = "c2" THEN "u2" ELSE "u3"]
  /\ Created("u1", <<"u2", "u3">>)
  /\ registry = [h \in Clients |-> [party |-> 1, user |-> user[h]]]
  /\ playback = [p \in PartyIds |-> NoState]
  /\ ver = [p \in PartyIds |-> IF p = 1 THEN 2 ELSE 0]
  /\ toServer = [c \in Clients |-> << >>]
  /\ inbox = [c \in Clients |-> IF c = "c2" THEN << >> ELSE <<JoinedEvent("c2", 2)>>]
  /\ mounted = [c \in Clients |-> 1]
  /\ pc = [c \in Clients |-> Idle]
  /\ connectionStatus = [c \in Clients |-> "connecting"]
  /\ participants = [c \in Clients |->
                       CASE c = "c1" -> {"c1"} [] c = "c3" -> {"c1", "c3"} [] OTHER -> Clients]
  /\ playing = [c \in Clients |-> 1]
  /\ currentTime = [c \in Clients |-> 0]
  /\ tmdbId = [c \in Clients |-> 0]
  /\ seeking = [c \in Clients |-> FALSE]
  /\ joinCallbacks = [c \in Clients |-> {}]
  /\ ackId = [c \in Clients |-> 1]
  /\ current_party_id = [c \in Clients |-> 1]
  /\ localStream = [c \in Clients |-> TRUE]
  /\ peers = [c \in Clients |->
                CASE c = "c1" -> [NoPeers EXCEPT !["c3"] = 1]
                  [] c = "c3" -> [NoPeers EXCEPT !["c1"] = 1]
                  [] OTHER -> NoPeers]
  /\ conns = [c \in Clients |->
                CASE c = "c1" -> ConnectedTo("c3", TRUE)
                  [] c = "c3" -> ConnectedTo("c1", FALSE)
                  [] OTHER -> [i \in Slots |-> Free]]

NextIsolation ==
  \/ Unmount("c2")
  \/ MountSession("c2", 1)
  \/ setupMedia("c2", TRUE)
  \/ \E c \in Clients : join_watch_party(c)
  \/ \E c \in Clients : leave_watch_party(c)
  \/ \E c \in Clients : send_signal(c)
  \/ \E c \in Clients : on_join_ack(c)
  \/ \E c \in Clients : on_logged(c)
  \/ \E c \in Clients : on_participant_joined(c)
  \/ \E c \in Clients : on_participant_left(c)
  \/ \E c \in Clients : on_signal_received(c)
  \/ \E c \in Clients, i \in Slots : peer_signal(c, i)
  \/ \E c \in Clients, i \in Slots : peer_error(c, i)
  \/ \E c \in Clients, i \in Slots : peer_close(c, i)

IsolationSpec == IsolationInit /\ [][NextIsolation]_vars

\* Departure: u1 and u2 are in party 1 and u1 drives the player; either may
\* close the session page, u2's transport may drop, and u3 may open the page.
NextDeparture ==
  \/ \E s \in Updates : updateVideoState("c1", 1, s)
  \/ \E c \in Browsers : Unmount(c)
  \/ \E reason \in DisconnectReasons : disconnect("c2", reason)
  \/ MountSession("c3", 1)
  \/ setupMedia("c3", FALSE)
  \/ \E c \in Clients : video_state_change(c)
  \/ \E c \in Clients : join_watch_party(c)
  \/ \E c \in Clients : leave_watch_party(c)
  \/ \E c \in Clients : on_join_ack(c)
  \/ \E c \in Clients : on_logged(c)
  \/ \E c \in Clients : on_video_state_updated(c)
  \/ \E c \in Clients : on_participant_joined(c)
  \/ \E c \in Clients : on_participant_left(c)

DepartureSpec == SyncInit /\ [][NextDeparture]_vars

\* Signaling: u1 and u2, both with a camera, are in party 1 and c1 is about to
\* learn of c2; either may close the session page and open it again, and u2's
\* transport may drop.
NextSignal ==
  \/ \E c \in Browsers : Unmount(c)
  \/ \E c \in Browsers : MountSession(c, 1)
  \/ \E c \in Browsers : setupMedia(c, TRUE)
  \/ \E reason \in DisconnectReasons : disconnect("c2", reason)
  \/ \E c \in Browsers : join_watch_party(c)
  \/ \E c \in Browsers : leave_watch_party(c)
  \/ \E c \in Browsers : send_signal(c)
  \/ \E c \in Browsers : on_join_ack(c)
  \/ \E c \in Browsers : on_logged(c)
  \/ \E c \in Browsers : on_participant_joined(c)
  \/ \E c \in Browsers : on_participant_left(c)
  \/ \E c \in Browsers : on_signal_received(c)
  \/ \E c \in Browsers, i \in Slots : peer_signal(c, i)
  \/ \E c \in Browsers, i \in Slots : peer_error(c, i)

SignalSpec == RelayInit /\ [][NextSignal]_vars

\* Authority: u1 (c1) and u2 (c2), both with a camera, are in party 1; u2
\* opens the session in a second tab (c3) and may close it again, while u1
\* pauses the player.
AuthorityInit ==
  /\ user = [c \in Clients |-> IF c = "c1" THEN "u1" ELSE "u2"]
  /\ Created("u1", <<"u2">>)
  /\ registry = [h \in Clients |-> IF h \in Browsers THEN [party |-> 1, user |-> user[h]] ELSE NoSession]
  /\ playback = [p \in PartyIds |-> NoState]
  /\ ver = [p \in PartyIds |-> IF p = 1 THEN 1 ELSE 0]
  /\ toServer = [c \in Clients |-> << >>]
  /\ inbox = [c \in Clients |-> << >>]
  /\ mounted = [c \in Clients |-> IF c \in Browsers THEN 1 ELSE 0]
  /\ pc = [c \in Clients |-> Idle]
  /\ connectionStatus = [c \in Clients |-> "connecting"]
  /\ participants = [c \in Clients |->
                       IF c \in Browsers THEN {h \in Browsers : Order(h) <= Order(c)} ELSE {}]
  /\ playing = [c \in Clients |-> 1]
  /\ currentTime = [c \in Clients |-> 0]
  /\ tmdbId = [c \in Clients |-> 0]
  /\ seeking = [c \in Clients |-> FALSE]
  /\ joinCallbacks = [c \in Clients |-> {}]
  /\ ackId = [c \in Clients |-> IF c \in Browsers THEN 1 ELSE 0]
  /\ current_party_id = [c \in Clients |-> IF c \in Browsers THEN 1 ELSE 0]
  /\ localStream = [c \in Clients |-> c \in Browsers]
  /\ peers = [c \in Clients |->
                CASE c = "c1" -> [NoPeers EXCEPT !["c2"] = 1]
                  [] c = "c2" -> [NoPeers EXCEPT !["c1"] = 1]
                  [] OTHER -> NoPeers]
  /\ conns = [c \in Clients |->
                CASE c = "c1" -> ConnectedTo("c2", TRUE)
                  [] c = "c2" -> ConnectedTo("c1", FALSE)
                  [] OTHER -> [i \in Slots |-> Free]]

NextAuthority ==
  \/ MountSession("c3", 1)
  \/ setupMedia("c3", TRUE)
  \/ Unmount("c3")
  \/ updateVideoState("c1", 1, Pause)
  \/ \E c \in Clients : join_watch_party(c)
  \/ \E c \in Clients : leave_watch_party(c)
  \/ \E c \in Clients : send_signal(c)
  \/ \E c \in Clients : video_state_change(c)
  \/ \E c \in Clients : on_join_ack(c)
  \/ \E c \in Clients : on_logged(c)
  \/ \E c \in Clients : on_video_state_updated(c)
  \/ \E c \in Clients : on_participant_joined(c)
  \/ \E c \in Clients : on_participant_left(c)
  \/ \E c \in Clients : on_signal_received(c)
  \/ \E c \in Clients, i \in Slots : peer_signal(c, i)
  \/ \E c \in Clients, i \in Slots : peer_error(c, i)

AuthoritySpec == AuthorityInit /\ [][NextAuthority]_vars

\* Selection: u1 (c1) and u2 (c2), both with a camera and connected, are in
\* party 1 with the session page showing content 42; either may pick another
\* movie in the search overlay.
Contents == {42, 77}

SelectInit ==
  /\ user = [c \in Clients |-> IF c = "c1" THEN "u1" ELSE "u2"]
  /\ Created("u1", <<"u2">>)
  /\ registry = [h \in Clients |-> IF h \in Browsers THEN [party |-> 1, user |-> user[h]] ELSE NoSession]
  /\ playback = [p \in PartyIds |-> NoState]
  /\ ver = [p \in PartyIds |-> IF p = 1 THEN 1 ELSE 0]
  /\ toServer = [c \in Clients |-> << >>]
  /\ inbox = [c \in Clients |-> << >>]
  /\ mounted = [c \in Clients |-> IF c \in Browsers THEN 1 ELSE 0]
  /\ pc = [c \in Clients |-> Idle]
  /\ connectionStatus = [c \in Clients |-> "connecting"]
  /\ participants = [c \in Clients |->
                       IF c \in Browsers THEN {h \in Browsers : Order(h) <= Order(c)} ELSE {}]
  /\ playing = [c \in Clients |-> 1]
  /\ currentTime = [c \in Clients |-> 0]
  /\ tmdbId = [c \in Clients |-> IF c \in Browsers THEN 42 ELSE 0]
  /\ seeking = [c \in Clients |-> FALSE]
  /\ joinCallbacks = [c \in Clients |-> {}]
  /\ ackId = [c \in Clients |-> IF c \in Browsers THEN 1 ELSE 0]
  /\ current_party_id = [c \in Clients |-> IF c \in Browsers THEN 1 ELSE 0]
  /\ localStream = [c \in Clients |-> c \in Browsers]
  /\ peers = [c \in Clients |->
                CASE c = "c1" -> [NoPeers EXCEPT !["c2"] = 1]
                  [] c = "c2" -> [NoPeers EXCEPT !["c1"] = 1]
                  [] OTHER -> NoPeers]
  /\ conns = [c \in Clients |->
                CASE c = "c1" -> ConnectedTo("c2", TRUE)
                  [] c = "c2" -> ConnectedTo("c1", FALSE)
                  [] OTHER -> [i \in Slots |-> Free]]

NextSelect ==
  \/ \E c \in Browsers, id \in Contents : onSelectMovie(c, id)
  \/ \E c \in Browsers : video_state_change(c)
  \/ \E c \in Browsers : leave_watch_party(c)
  \/ \E c \in Browsers : on_logged(c)
  \/ \E c \in Browsers : on_video_state_updated(c)
  \/ \E c \in Browsers : handleSeek(c)
  \/ \E c \in Browsers : on_participant_left(c)
  \/ \E c \in Browsers, i \in Slots : peer_close(c, i)

SelectSpec == SelectInit /\ [][NextSelect]_vars

\* Echo: u1 and u2 are in party 1 with content 42 on both pages; u1 alone
\* touches the player (pause, seek).
NextEcho ==
  \/ \E s \in Updates : updateVideoState("c1", 1, s)
  \/ \E c \in Browsers : video_state_change(c)
  \/ \E c \in Browsers : on_logged(c)
  \/ \E c \in Browsers : on_video_state_updated(c)
  \/ \E c \in Browsers : handleSeek(c)

EchoSpec == SelectInit /\ [][NextEcho]_vars

\* Replacement: u1 (c1) and u2 (c2), both with a camera, are connected in
\* party 1; u2's page may show the error banner and be reconnected.
NextReplace ==
  \/ connect_error("c2")
  \/ handleReconnect("c2")
  \/ \E g \in BOOLEAN : reconnectJoin("c2", g)
  \/ \E c \in Browsers : join_watch_party(c)
  \/ \E c \in Browsers : send_signal(c)
  \/ \E c \in Browsers : on_join_ack(c)
  \/ \E c \in Browsers : on_participant_joined(c)
  \/ \E c \in Browsers : on_signal_received(c)
  \/ \E c \in Browsers, i \in Slots : peer_signal(c, i)
  \/ \E c \in Browsers, i \in Slots : ice_failed(c, i)
  \/ \E c \in Browsers, i \in Slots : peer_error(c, i)
  \/ \E c \in Browsers, i \in Slots : peer_close(c, i)

ReplaceSpec == AuthorityInit /\ [][NextReplace]_vars

\* Ending: u1 (c1) and u2 (c2), both with a camera and connected, are in
\* party 1 with content 42 on both pages; the party may be ended, every open
\* page polls the party's details, and u2 may open the session once more in
\* another tab (c3), with or without a camera, without a tmdb parameter.
NextEnd ==
  \/ end_watch_party(1)
  \/ \E c \in Clients : poll(c)
  \/ ackId["c3"] = 0 /\ MountSession("c3", 1)
  \/ \E g \in BOOLEAN : setupMedia("c3", g)
  \/ \E c \in Clients : join_watch_party(c)
  \/ \E c \in Clients : leave_watch_party(c)
  \/ \E c \in Clients : send_signal(c)
  \/ \E c \in Clients : on_join_ack(c)
  \/ \E c \in Clients : on_logged(c)
  \/ \E c \in Clients : on_participant_joined(c)
  \/ \E c \in Clients : on_participant_left(c)
  \/ \E c \in Clients : on_signal_received(c)
  \/ \E c \in Clients, i \in Slots : peer_signal(c, i)
  \/ \E c \in Clients, i \in Slots : peer_error(c, i)

EndSpec == SelectInit /\ [][NextEnd]_vars

\* The server handles what it has received, a browser runs every handler
\* whose event is pending, getUserMedia settles and the interval of an open
\* page keeps firing; when the party is ended and whether u2 opens another tab
\* is up to the users.
EndFairness ==
  \A c \in Clients :
    /\ WF_vars(poll(c))
    /\ WF_vars(\E g \in BOOLEAN : setupMedia(c, g))
    /\ WF_vars(join_watch_party(c))
    /\ WF_vars(leave_watch_party(c))
    /\ WF_vars(send_signal(c))
    /\ WF_vars(on_join_ack(c))
    /\ WF_vars(on_logged(c))
    /\ WF_vars(on_participant_joined(c))
    /\ WF_vars(on_participant_left(c))
    /\ WF_vars(on_signal_received(c))
    /\ \A i \in Slots : WF_vars(peer_signal(c, i)) /\ WF_vars(peer_error(c, i))

EndLiveSpec == EndSpec /\ EndFairness

\* The server handles every message it has received, and a browser runs
\* every handler whose event is pending; what the users do is up to them.
RelayFairness ==
  \A c \in Browsers :
    /\ WF_vars(join_watch_party(c))
    /\ WF_vars(leave_watch_party(c))
    /\ WF_vars(send_signal(c))
    /\ WF_vars(on_join_ack(c))
    /\ WF_vars(on_logged(c))
    /\ WF_vars(on_participant_joined(c))
    /\ WF_vars(on_participant_left(c))
    /\ WF_vars(on_signal_received(c))
    /\ WF_vars(setupMedia(c, TRUE))
    /\ \A i \in Slots : WF_vars(peer_signal(c, i)) /\ WF_vars(peer_error(c, i))

RelayLiveSpec == RelaySpec /\ RelayFairness

\* --------------------------------------------------------------- properties

Rank(status) == CASE status = "pending" -> 0 [] status = "active" -> 1 [] OTHER -> 2

\* C1: over every sequence of createParty, acceptInvite, endParty, join_party
\* and leave_party calls the status of a party only moves forward along
\* pending, active, ended; no step takes it back.
C1_StatusMonotone ==
  [][\A p \in DOMAIN parties : Rank(parties'[p].status) >= Rank(parties[p].status)]_vars

Handles(reg, p, u) == {h \in Clients : reg[h] = [party |-> p, user |-> u]}

\* C2: in the Presence Registry at most one live handle maps to a (party, user)
\* pair; a join_party of a pair that has a handle evicts it before the new one
\* is installed, and every accepted join or rejoin (Reconnect included) leaves
\* the joining handle as the one handle of that user.
C2_OneHandlePerUser ==
  [][/\ \A p \in PartyIds, u \in Users : Cardinality(Handles(registry', p, u)) <= 1
     /\ \A c \in Clients :
          (/\ Pending(c, "join_watch_party")
           /\ toServer'[c] = Tail(toServer[c])
           /\ PartyLive(Head(toServer[c]).party_id)
           /\ HasRow(Head(toServer[c]).party_id, Head(toServer[c]).user_id)
           /\ join_watch_party(c))
          => Handles(registry', Head(toServer[c]).party_id, Head(toServer[c]).user_id) = {c}]_vars

\* The first tab pressed Reconnect and registered again on its socket; then the
\* second tab's join evicted it, and it was told so.
C2_Witness ==
  /\ registry["c3"] = [party |-> 1, user |-> "u2"]
  /\ registry["c2"] = NoSession
  /\ ackId["c2"] > 1
  /\ toServer["c2"] = << >>
  /\ \E i \in DOMAIN inbox["c2"] : inbox["c2"][i].type = "superseded"

\* A SimplePeer instance that has been created and neither destroyed nor failed.
LiveConn(inst) == inst.st \in {"new", "offered", "answering", "connected"}

Initiating(a, b) ==
  \E i \in Slots : LiveConn(conns[a][i]) /\ conns[a][i].peerID = b /\ conns[a][i].initiator

\* C3: one side of a pair initiates and the other waits for its payload: in no
\* reachable state do both sides of a pair hold an initiating connection toward
\* each other.
C3_NoTwoInitiators ==
  \A a \in Clients, b \in Clients : a # b => ~(Initiating(a, b) /\ Initiating(b, a))

\* C4: on each client there is at most one live connection per remote
\* participant, and every live connection is the one the peer table holds
\* for that participant.
C4_OneTrackedPeer ==
  \A c \in Clients :
    /\ \A k \in Clients :
         Cardinality({i \in Slots : LiveConn(conns[c][i]) /\ conns[c][i].peerID = k}) <= 1
    /\ \A i \in Slots : LiveConn(conns[c][i]) => peers[c][conns[c][i].peerID] = i

\* Nothing is in flight and no page or connection has a step left to take.
Settled ==
  /\ \A c \in Clients : toServer[c] = << >> /\ inbox[c] = << >> /\ pc[c] = Idle
  /\ \A c \in Clients, i \in Slots : conns[c][i].st \in {"free", "offered", "connected"}

Present(c) == mounted[c] = 1 /\ registry[c].party = 1

Connected(a, b) == peers[a][b] # 0 /\ conns[a][peers[a][b]].st = "connected"

\* C5: full mesh: when the participants stay in the party and every payload
\* has been delivered, each pair of them is connected, whatever the order of
\* joining and whether or not a camera was available.
C5_FullMesh ==
  Settled => \A a \in Clients, b \in Clients :
               (a # b /\ Present(a) /\ Present(b)) => Connected(a, b)

\* C6: acceptInvite(p, u) called a second time, right after acceptInvite(p, u),
\* changes nothing: the party's status and the participant's joined flag and
\* joined_at stay as the first call left them.
C6_AcceptIdempotent ==
  [][\A p \in PartyIds, u \in Users :
       (/\ reply = [op |-> "accept", party_id |-> p, user_id |-> u, result |-> "ok"]
        /\ HasRow(p, u)
        /\ accept_watch_party(p, u))
       => (parties' = parties /\ rows' = rows)]_vars

\* The callbacks a socket has in flight were registered in the order sent.
SentInOrder(q) ==
  \A i \in DOMAIN q, j \in DOMAIN q : (i < j /\ q[i].id > 0 /\ q[j].id > 0) => q[i].id < q[j].id

\* The party events on a socket arrive in the order the server produced them.
EventsInOrder(q) ==
  \A i \in DOMAIN q, j \in DOMAIN q : (i < j /\ q[i].ver > 0 /\ q[j].ver > 0) => q[i].ver < q[j].ver

\* The server takes the video_state_change at the head of c's socket, and
\* accepts it.
StateAccepted(c) ==
  /\ Pending(c, "video_state_change")
  /\ toServer'[c] = Tail(toServer[c])
  /\ PartyLive(Head(toServer[c]).party_id)
  /\ registry[c].party = Head(toServer[c]).party_id

Broadcast(c, p, st, n) ==
  [Msg("video_state_updated") EXCEPT !.sid = c, !.state = st, !.party_id = p, !.ver = n]

\* C7: playback updates are applied and broadcast in the order the server
\* receives them: a client's updates reach the server in the order sent, each
\* accepted update is merged into the state left by the one before it and the
\* result is appended, as the party's next event, to the socket of the other
\* registered handles, so presence events and broadcasts reach every handle
\* in the server's order.
C7_UpdatesInOrder ==
  [][/\ \A c \in Clients : SentInOrder(toServer'[c]) /\ EventsInOrder(inbox'[c])
     /\ \A c \in Clients :
          (StateAccepted(c) /\ video_state_change(c)) =>
            LET m == Head(toServer[c])
                p == m.party_id
            IN /\ \A i \in DOMAIN toServer[c] : toServer[c][i].id = 0 \/ toServer[c][i].id >= m.id
               /\ playback'[p] = Merge(playback[p], m.state)
               /\ \A h \in roster(registry, p) \ {c} :
                    inbox'[h] = Append(inbox[h], Broadcast(c, p, playback'[p], ver[p] + 1))
               /\ roster(registry, p) \ {c} # {} => ver'[p] = ver[p] + 1]_vars

\* u3 has joined; u2's socket holds the broadcast of u1's pause and, behind it,
\* the broadcast of u1's seek merged on top of it.
C7_Witness ==
  /\ registry["c3"].party = 1
  /\ Len(inbox["c2"]) = 2
  /\ inbox["c2"][1].type = "video_state_updated"
  /\ inbox["c2"][1].state = [playing |-> 0, currentTime |-> NULL, tmdbId |-> NULL]
  /\ inbox["c2"][2].type = "video_state_updated"
  /\ inbox["c2"][2].state = [playing |-> 0, currentTime |-> 120, tmdbId |-> NULL]

SelfEcho(h) ==
  \E i \in DOMAIN inbox[h] : inbox[h][i].type = "video_state_updated" /\ inbox[h][i].sid = h

\* C8: no self-echo: the broadcast of a set_playback_state call goes to every
\* other handle of the party's roster and never to the handle that called.
C8_NoSelfEcho ==
  [][/\ \A h \in Clients : ~SelfEcho(h)'
     /\ \A c \in Clients :
          (StateAccepted(c) /\ video_state_change(c)) =>
            LET p == Head(toServer[c]).party_id
            IN /\ \A h \in roster(registry, p) \ {c} :
                    /\ Len(inbox'[h]) = Len(inbox[h]) + 1
                    /\ inbox'[h][Len(inbox'[h])].type = "video_state_updated"
                    /\ inbox'[h][Len(inbox'[h])].sid = c
               /\ Len(inbox'[c]) = Len(inbox[c]) + 1
               /\ inbox'[c][Len(inbox'[c])].type = "state_ack"]_vars

\* u1's update went out to u2 and to u3, and u1's socket holds only the answer.
C8_Witness ==
  /\ roster(registry, 1) = Clients
  /\ \A h \in {"c2", "c3"} :
       /\ inbox[h] # << >>
       /\ inbox[h][Len(inbox[h])].type = "video_state_updated"
       /\ inbox[h][Len(inbox[h])].sid = "c1"
  /\ inbox["c1"] # << >>
  /\ \A i \in DOMAIN inbox["c1"] : inbox["c1"][i].type = "state_ack"

NonHostJoined(p) ==
  \E i \in PartyRows(rows, p) : rows[i].user_id # parties[p].host_id /\ rows[i].joined = 1

AllJoined(rs, p) == \A i \in PartyRows(rs, p) : rs[i].joined = 1

Ended(p) == p \in DOMAIN parties /\ parties[p].status = "ended"

Rejected(c, type) ==
  /\ inbox'[c] = Append(inbox[c], Failure(type, Head(toServer[c]).id, "PartyEnded"))
  /\ UNCHANGED <<parties, rows, registry, playback>>

\* C10: an ended party is terminal: every acceptInvite, join_party,
\* relay_signal and set_playback_state on it fails with PartyEnded and leaves
\* the Party Store, the Presence Registry and the playback state as they were.
C10_EndedIsTerminal ==
  [][\A p \in PartyIds : Ended(p) =>
       /\ \A u \in Users : accept_watch_party(p, u) => UNCHANGED <<parties, rows>>
       /\ \A c \in Clients :
            /\ (Pending(c, "join_watch_party") /\ Head(toServer[c]).party_id = p
                  /\ join_watch_party(c)) => Rejected(c, "join_ack")
            /\ (Pending(c, "video_state_change") /\ Head(toServer[c]).party_id = p
                  /\ video_state_change(c)) => Rejected(c, "state_ack")
            /\ (Pending(c, "send_signal") /\ registry[c].party = p /\ send_signal(c))
                 => UNCHANGED <<parties, rows, registry, playback, inbox>>]_vars

Elems(f) == {f[i] : i \in DOMAIN f}

\* The rows of party p a valid createParty(host_id, friend_ids) is to write.
ExpectedRows(p, host_id, friend_ids) ==
  {[party_id |-> p, user_id |-> host_id, joined |-> 1]}
  \cup {[party_id |-> p, user_id |-> u, joined |-> 0] : u \in Elems(friend_ids)}

WrittenRows(rs, p) ==
  {[party_id |-> p, user_id |-> rs[i].user_id, joined |-> rs[i].joined] : i \in PartyRows(rs, p)}

\* C11: createParty(hostId, contentId, inviteeIds) has two outcomes: with
\* inviteeIds empty or containing the host it fails with InvalidInput and
\* writes nothing; otherwise it writes one pending party, the host's row with
\* joined = true and one row with joined = false for each invitee.
C11_CreateOutcomes ==
  [][\A h \in Hosts, f \in FriendLists :
       (reply'.op = "create" /\ create_watch_party(h, 42, f)) =>
         IF f = << >> \/ h \in Elems(f)
         THEN reply'.result = "InvalidInput" /\ parties' = parties /\ rows' = rows
         ELSE LET p == Len(parties) + 1
              IN /\ reply'.result = "ok"
                 /\ Len(parties') = Len(parties) + 1
                 /\ parties'[p].status = "pending"
                 /\ WrittenRows(rows', p) = ExpectedRows(p, h, f)
                 /\ Len(rows') = Len(rows) + 1 + Cardinality(Elems(f))]_vars

\* C12: in every state of the Party Store, listInvites(u) returns exactly the
\* parties that are pending and in which u has a participant row with
\* joined = false; right after createParty(u1, [u2, u3]) returns p, the list of
\* each invited friend contains p.
C12_InvitesExact ==
  /\ \A u \in Users :
       Elems(get_watch_party_invites(u)) =
         {p \in DOMAIN parties :
            /\ parties[p].status = "pending"
            /\ \E i \in DOMAIN rows :
                 rows[i].party_id = p /\ rows[i].user_id = u /\ rows[i].joined = 0}
  /\ (reply.op = "create" /\ reply.result = "ok") =>
       \A i \in PartyRows(rows, reply.party_id) :
         rows[i].joined = 0 => reply.party_id \in Elems(get_watch_party_invites(rows[i].user_id))

\* Party 1 has ended with u3's invite open and party 2 has just been created
\* for u2 and u3: u3 is listed party 2 alone, and u2, who accepted party 1, too.
C12_Witness ==
  /\ Len(parties) = 2
  /\ parties[1].status = "ended"
  /\ \E i \in PartyRows(rows, 1) : rows[i].user_id = "u3" /\ rows[i].joined = 0
  /\ \E i \in PartyRows(rows, 1) : rows[i].user_id = "u2" /\ rows[i].joined = 1
  /\ reply = [op |-> "create", party_id |-> 2, user_id |-> "u1", result |-> "ok"]
  /\ get_watch_party_invites("u3") = <<2>>
  /\ get_watch_party_invites("u2") = <<2>>

\* The server answers the join at the head of c's socket with NotInvited.
NotInvitedReply(c) ==
  inbox'[c] = Append(inbox[c], Failure("join_ack", Head(toServer[c]).id, "NotInvited"))

\* C13: acceptInvite or join_party by a user who has no participant row in the
\* party is rejected with NotInvited, and the rejection changes neither the
\* party's status, nor a participant row, nor the presence roster.
C13_NotInvitedRejected ==
  [][/\ \A p \in DOMAIN parties, u \in Users :
          (~HasRow(p, u) /\ reply'.op = "accept" /\ accept_watch_party(p, u)) =>
            /\ reply'.result = "NotInvited"
            /\ UNCHANGED <<parties, rows, registry>>
     /\ \A c \in Clients :
          (/\ Pending(c, "join_watch_party")
           /\ toServer'[c] = Tail(toServer[c])
           /\ PartyLive(Head(toServer[c]).party_id)
           /\ ~HasRow(Head(toServer[c]).party_id, Head(toServer[c]).user_id)
           /\ join_watch_party(c))
          => NotInvitedReply(c) /\ UNCHANGED <<parties, rows, registry>>]_vars

\* The server takes the send_signal at the head of c's socket.
RelayStep(c) ==
  /\ Pending(c, "send_signal")
  /\ toServer'[c] = Tail(toServer[c])
  /\ send_signal(c)

SameParty(from, to) == registry[from].party # 0 /\ registry[to].party = registry[from].party

Delivered(from, m) ==
  inbox' = [inbox EXCEPT ![m.sid] =
              Append(@, [Msg("signal_received") EXCEPT !.sid = from, !.signal = m.signal])]

Fields == {"playing", "currentTime", "tmdbId"}

\* The other handles of the roster are sent st as the party's next event.
SentToOthers(c, p, st) ==
  \A h \in roster(registry, p) \ {c} :
    /\ Len(inbox'[h]) = Len(inbox[h]) + 1
    /\ inbox'[h][Len(inbox'[h])].type = "video_state_updated"
    /\ inbox'[h][Len(inbox'[h])].state = st

\* C15: set_playback_state merges only the provided fields into the party's
\* state, every field not provided keeping its previous value, and the state
\* broadcast to the other handles is the full resulting state.
C15_MergeKeepsUnset ==
  [][\A c \in Clients : (StateAccepted(c) /\ video_state_change(c)) =>
       LET upd == Head(toServer[c]).state
           p == Head(toServer[c]).party_id
       IN /\ \A f \in Fields :
               playback'[p][f] = IF upd[f] # NULL THEN upd[f] ELSE playback[p][f]
          /\ DOMAIN playback'[p] = Fields
          /\ SentToOthers(c, p, playback'[p])]_vars

\* C15, with the content change: every provided field takes the value
\* provided; a field not provided keeps its previous value unless the update
\* sets content_id, in which case playing becomes true and the position 0; the
\* state broadcast to the other handles is the full resulting state.
C15_MergeKeepsUnsetOrResets ==
  [][\A c \in Clients : (StateAccepted(c) /\ video_state_change(c)) =>
       LET upd == Head(toServer[c]).state
           p == Head(toServer[c]).party_id
           reset == [playing |-> 1, currentTime |-> 0, tmdbId |-> upd.tmdbId]
       IN /\ \A f \in Fields :
               playback'[p][f] = IF upd[f] # NULL THEN upd[f]
                                 ELSE IF upd.tmdbId # NULL THEN reset[f]
                                 ELSE playback[p][f]
          /\ DOMAIN playback'[p] = Fields
          /\ SentToOthers(c, p, playback'[p])]_vars

\* u1 changed the content and seeked, then paused: u2 is sent the state after
\* each update, the second with the position and the content of the first.
C15_Witness ==
  /\ Len(inbox["c2"]) = 2
  /\ inbox["c2"][1].type = "video_state_updated"
  /\ inbox["c2"][1].state = [playing |-> 1, currentTime |-> 120, tmdbId |-> 77]
  /\ inbox["c2"][2].type = "video_state_updated"
  /\ inbox["c2"][2].state = [playing |-> 0, currentTime |-> 120, tmdbId |-> 77]
  /\ playback[1] = [playing |-> 0, currentTime |-> 120, tmdbId |-> 77]

\* C16: a set_playback_state that sets content_id is a full reset: the
\* resulting state has position 0 and playing true except for those of the two
\* that the update sets itself, whatever the state was before, and this is the
\* state the other participants are sent.
C16_ContentChangeResets ==
  [][\A c \in Clients :
       (StateAccepted(c) /\ Head(toServer[c]).state.tmdbId # NULL /\ video_state_change(c)) =>
         LET upd == Head(toServer[c]).state
             p == Head(toServer[c]).party_id
             st == [playing |-> IF upd.playing = NULL THEN 1 ELSE upd.playing,
                    currentTime |-> IF upd.currentTime = NULL THEN 0 ELSE upd.currentTime,
                    tmdbId |-> upd.tmdbId]
         IN /\ playback'[p] = st
            /\ SentToOthers(c, p, st)
            /\ (upd.playing = 1 /\ upd.currentTime = NULL) =>
                 SentToOthers(c, p, [playing |-> 1, currentTime |-> 0, tmdbId |-> upd.tmdbId])]_vars

\* The party was paused at 120 when u1 sent {playing: true, content_id: 77}:
\* u2 is sent playing at position 0 of the new content.
C16_Witness ==
  /\ Len(inbox["c2"]) = 2
  /\ inbox["c2"][1].type = "video_state_updated"
  /\ inbox["c2"][1].state = [playing |-> 0, currentTime |-> 120, tmdbId |-> NULL]
  /\ inbox["c2"][2].type = "video_state_updated"
  /\ inbox["c2"][2].state = [playing |-> 1, currentTime |-> 0, tmdbId |-> 77]
  /\ playback[1] = [playing |-> 1, currentTime |-> 0, tmdbId |-> 77]

\* The last event on h's socket is the presence change (type) of handle sid.
LastEvent(h, type, sid) ==
  /\ inbox'[h] # << >>
  /\ inbox'[h][Len(inbox'[h])].type = type
  /\ inbox'[h][Len(inbox'[h])].sid = sid

JoinAccepted(c) ==
  /\ Pending(c, "join_watch_party")
  /\ toServer'[c] = Tail(toServer[c])
  /\ PartyLive(Head(toServer[c]).party_id)
  /\ HasRow(Head(toServer[c]).party_id, Head(toServer[c]).user_id)
  /\ join_watch_party(c)

LeaveAccepted(c) ==
  /\ Pending(c, "leave_watch_party")
  /\ toServer'[c] = Tail(toServer[c])
  /\ registry[c].party # 0
  /\ registry[c].party = Head(toServer[c]).party_id
  /\ leave_watch_party(c)

\* C17: every register and unregister in a party is pushed as a presence
\* event to all other live handles of the party, and the page of a connected
\* client that takes the event lists the participant after a join and no
\* longer lists them after a leave, without polling or joining again.
C17_RosterViewFollows ==
  [][\A c \in Clients :
       /\ JoinAccepted(c) =>
            \A h \in roster(registry', registry'[c].party) \ {c} :
              LastEvent(h, "participant_joined", c)
       /\ LeaveAccepted(c) =>
            \A h \in roster(registry', registry[c].party) : LastEvent(h, "participant_left", c)
       /\ (mounted[c] # 0 /\ registry[c].party = mounted[c] /\ on_participant_joined(c)) =>
            Head(inbox[c]).sid \in participants'[c]
       /\ (mounted[c] # 0 /\ registry[c].party = mounted[c] /\ on_participant_left(c)) =>
            Head(inbox[c]).sid \notin participants'[c]]_vars

\* The answer to a join that was accepted, as it arrives at its callback.
JoinAnswered(c) ==
  /\ inbox[c] # << >>
  /\ Head(inbox[c]).type = "join_ack"
  /\ Head(inbox[c]).success
  /\ \E k \in joinCallbacks[c] : k.id = Head(inbox[c]).id
  /\ on_join_ack(c)

\* C18: a successful join_party returns the current roster and the party's
\* playback state (null if nothing has played yet), and the joining page
\* starts from that state: once the answer is handled, its playing flag, its
\* position and its content id are those of the state returned.
C18_JoinerStartsFromState ==
  [][\A c \in Clients :
       /\ JoinAccepted(c) =>
            LET p == Head(toServer[c]).party_id
                a == inbox'[c][Len(inbox'[c])]
            IN /\ a.type = "join_ack" /\ a.success
               /\ a.participants = roster(registry', p)
               /\ a.state = playback[p]
       /\ JoinAnswered(c) =>
            LET st == Head(inbox[c]).state
            IN /\ st.playing # NULL => playing'[c] = st.playing
               /\ st.currentTime # NULL => currentTime'[c] = st.currentTime
               /\ st.tmdbId # NULL => tmdbId'[c] = st.tmdbId]_vars

\* Client h holds a connection toward peer k that is neither destroyed nor failed.
HoldsConn(cs, h, k) == \E i \in Slots : LiveConn(cs[h][i]) /\ cs[h][i].peerID = k

\* C19: when a participant's transport disconnects abruptly the server
\* unregisters the handle and every remaining participant is sent
\* presence_changed(left) for it; on a remaining client that takes the event
\* no connection toward the departed peer is left open, whatever state the
\* pair was in.
C19_DisconnectClosesPairs ==
  [][\A c \in Clients :
       /\ (registry[c].party # 0 /\ \E reason \in DisconnectReasons : disconnect(c, reason)) =>
            /\ registry'[c] = NoSession
            /\ \A h \in roster(registry', registry[c].party) :
                 LastEvent(h, "participant_left", c)
       /\ \A h \in Clients \ {c} :
            (/\ inbox[h] # << >>
             /\ Head(inbox[h]).type = "participant_left"
             /\ Head(inbox[h]).sid = c
             /\ on_participant_left(h))
            => ~HoldsConn(conns', h, c)]_vars

\* A negotiation of c toward k has failed with a hard error.
NegotiationFailed(c, k) == \E i \in Slots : conns[c][i].st = "failed" /\ conns[c][i].peerID = k

\* Both ends are still in the party with the page open.
PairPresent(c, k) ==
  /\ mounted[c] # 0 /\ registry[c].party = mounted[c]
  /\ mounted[k] # 0 /\ registry[k].party = registry[c].party
  /\ PartyLive(registry[c].party)

\* c holds an instance toward k that has not failed: a negotiation under way
\* or a connection made, whichever side started it.
Reattempting(c, k) ==
  \E i \in Slots : conns[c][i].peerID = k
                   /\ conns[c][i].st \in {"new", "offered", "answering", "connected"}

\* C20: a negotiation failure tears the pair down, returns it to Idle and is
\* followed by a re-attempt: whenever a negotiation of c toward k has failed,
\* c later negotiates toward k again, unless one of the two has left.
C20_FailureRetried ==
  \A c \in Browsers : \A k \in Browsers \ {c} :
    NegotiationFailed(c, k) ~> (Reattempting(c, k) \/ ~PairPresent(c, k))

\* C21: failures are isolated per pair.  When the 'error' or the 'close'
\* handler of an instance of c toward k runs, the instances and the table
\* entries of c for every other peer, the connections of every other client,
\* the Presence Registry and the playback state are unchanged, and nothing is
\* sent: no other pair is negotiated again.
PairHandlerStep(c, i) == peer_error(c, i) \/ peer_close(c, i)

C21_FailureIsolated ==
  [][\A c \in Clients, i \in Slots :
       PairHandlerStep(c, i) =>
         LET k == conns[c][i].peerID
         IN /\ \A s \in Slots : conns[c][s].peerID # k => conns'[c][s] = conns[c][s]
            /\ \A h \in Clients \ {k} : peers'[c][h] = peers[c][h]
            /\ \A d \in Clients \ {c} : conns'[d] = conns[d] /\ peers'[d] = peers[d]
            /\ registry' = registry /\ playback' = playback
            /\ toServer' = toServer /\ inbox' = inbox]_vars

\* A client whose negotiation with one peer has failed while it holds a
\* connection to another.
C21_Witness ==
  \E c \in Clients, i \in Slots, s \in Slots :
    /\ conns[c][i].st = "failed"
    /\ conns[c][s].st \in {"offered", "connected"}
    /\ conns[c][s].peerID # conns[c][i].peerID

\* The server unregisters handle h: an accepted leave_party, or the drop of
\* its transport.
Unregisters(h) ==
  /\ registry[h].party # 0
  /\ \/ leave_watch_party(h) /\ Head(toServer[h]).party_id = registry[h].party
     \/ \E reason \in DisconnectReasons : disconnect(h, reason)

\* C22: unregister removes the mapping of the given handle and no other; if
\* the party's roster is empty afterwards its playback state is discarded,
\* otherwise it is kept; the party's row and its participant rows in the Party
\* Store are as they were.  A join into a party nobody is in is answered with
\* no playback state.
C22_UnregisterFrame ==
  [][/\ \A h \in Clients :
          Unregisters(h) =>
            LET p == registry[h].party
            IN /\ registry' = [registry EXCEPT ![h] = NoSession]
               /\ playback' = IF roster(registry', p) = {}
                               THEN [playback EXCEPT ![p] = NoState] ELSE playback
               /\ parties' = parties /\ rows' = rows
     /\ \A c \in Clients :
          (join_watch_party(c) /\ registry'[c].party # 0
             /\ roster(registry, registry'[c].party) = {})
            => inbox'[c][Len(inbox'[c])].state = NoState]_vars

\* The last handle of a party whose playback state is set is about to leave.
C22_Witness ==
  \E h \in Clients :
    /\ roster(registry, 1) = {h}
    /\ playback[1] # NoState
    /\ Pending(h, "leave_watch_party")
    /\ Head(toServer[h]).party_id = 1

\* The payloads from f on their way to h, oldest first.
IsSignalFrom(m, f) == m.type = "signal_received" /\ m.sid = f

RECURSIVE Signals(_, _)
Signals(q, f) ==
  IF q = << >> THEN << >>
  ELSE (IF IsSignalFrom(Head(q), f) THEN <<Head(q).signal>> ELSE << >>) \o Signals(Tail(q), f)

\* C23: signaling is at-most-once and in order per pair.  In every step the
\* payloads from f in transit to h stay as they are, or lose their oldest
\* element because h has just received it, or gain one at the end because the
\* server has just relayed the send_signal of f, or are all lost because the
\* transport of h has dropped.  Nothing is delivered twice, out of order, or
\* after its loss.
C23_SignalsInOrderAtMostOnce ==
  [][\A f \in Clients, h \in Clients :
       LET old == Signals(inbox[h], f)
           new == Signals(inbox'[h], f)
       IN \/ new = old
          \/ /\ on_signal_received(h) /\ IsSignalFrom(Head(inbox[h]), f)
             /\ new = Tail(old)
          \/ /\ send_signal(f) /\ Head(toServer[f]).sid = h
             /\ new = Append(old, Head(toServer[f]).signal)
          \/ /\ \E reason \in DisconnectReasons : disconnect(h, reason)
             /\ new = << >>]_vars

\* Two different payloads from one sender are on their way to one receiver.
C23_Witness ==
  \E f \in Clients, h \in Clients :
    /\ Len(Signals(inbox[h], f)) >= 2
    /\ Signals(inbox[h], f)[1] # Signals(inbox[h], f)[2]

\* The server handles a request that came in through the connection of c.
ClientRequest(c) ==
  \/ join_watch_party(c)
  \/ leave_watch_party(c)
  \/ send_signal(c)
  \/ video_state_change(c)

ContentChange(c) ==
  \/ \E id \in Contents : onSelectMovie(c, id)
  \/ on_video_state_updated(c)

Leaves(q) == Cardinality({i \in DOMAIN q : q[i].type = "leave_watch_party"})

\* C25: a client stays in its party across content changes.  Neither picking
\* a movie nor receiving a playback update makes the client send leave_party,
\* stop its local media or destroy its peer connections.
C25_StaysAcrossContentChange ==
  [][\A c \in Clients :
       ContentChange(c) =>
         /\ Leaves(toServer'[c]) = Leaves(toServer[c])
         /\ localStream'[c] = localStream[c]
         /\ conns'[c] = conns[c] /\ peers'[c] = peers[c]]_vars

\* C26: applying a received playback update makes no client emit one of its
\* own.  With u1 the only user who touches the player, no playback update is
\* ever on its way from another client to the server.
C26_ReceiversStaySilent ==
  \A c \in Clients \ {"c1"} :
    \A i \in DOMAIN toServer[c] : toServer[c][i].type # "video_state_change"

\* Every playback broadcast sent to c has been handled by its page.
AllDelivered(c) == \A i \in DOMAIN inbox[c] : inbox[c][i].type # "video_state_updated"

\* C27: once the broadcasts are delivered, the page of a connected client
\* shows the last state sent to it, content included, whether or not it had a
\* content selected before.  u2 never touches the player, so every state the
\* party takes is sent to c2.
C27_ViewFollowsState ==
  (registry["c2"].party = 1 /\ mounted["c2"] = 1 /\ playback[1] # NoState /\ AllDelivered("c2"))
    => /\ playback[1].playing # NULL => playing["c2"] = playback[1].playing
       /\ playback[1].tmdbId # NULL => tmdbId["c2"] = playback[1].tmdbId

\* Every entry of the peer table refers to an instance created for that key
\* and not destroyed.
TableRefersToLive ==
  \A c \in Clients, k \in Clients :
    peers[c][k] # 0 => conns[c][peers[c][k]].peerID = k /\ conns[c][peers[c][k]].st # "free"

\* C28: the peer table refers to live instances only, and the 'error' or
\* 'close' event of an instance removes that instance alone: every other
\* instance of the client is as it was, and a table entry that refers to
\* another (newer) instance is neither deleted nor changed.
C28_HandlersRemoveOwnOnly ==
  [][/\ TableRefersToLive
     /\ \A c \in Clients, i \in Slots :
          PairHandlerStep(c, i) =>
            /\ \A s \in Slots \ {i} : conns'[c][s] = conns[c][s]
            /\ \A k \in Clients : peers[c][k] # i => peers'[c][k] = peers[c][k]]_vars

\* c has left its party (leaveWatchParty removed current_party_id) and has
\* not joined one again.
TornDown(c) == current_party_id[c] = 0

Sends(q) == Cardinality({i \in DOMAIN q : q[i].type = "send_signal"})

\* C29: between its teardown and its next join a client holds no peer
\* connection.  No step taken while c is torn down, the arrival of
\* signal_received or participant_joined included, leaves c with a peer
\* instance or a table entry, or adds a send_signal to what c has emitted.
C29_NoPeerAfterTeardown ==
  [][\A c \in Clients :
       (TornDown(c) /\ current_party_id'[c] = 0) =>
         /\ \A i \in Slots : conns'[c][i] = Free
         /\ peers'[c] = NoPeers
         /\ Sends(toServer'[c]) <= Sends(toServer[c])]_vars

\* Nobody is in the session of party 1 any more: no page open, no handle
\* registered.
SessionEmpty == roster(registry, 1) = {} /\ \A c \in Clients : mounted[c] = 0

\* The poll of c finds its party ended.
PollSeesEnded(c) == poll(c) /\ Ended(mounted[c])

====
